---- MODULE Spec2Model ----
(***************************************************************************)
(* A model of gles3jni.cpp: the shader/program compiler utility            *)
(* (createShader, createProgram), the Renderer simulation (resize,         *)
(* calcSceneParams, step, render) and the three JNI entry points that own  *)
(* the global renderer pointer (init, resize, step).                       *)
(*                                                                         *)
(* Offsets and velocities of the simulation are fixed-point integers:      *)
(* an offset of 1.0 is ONE units, a velocity is in whole units per second  *)
(* and the clock counts ticks of two seconds, so v*dt*0.1 is               *)
(* (v*ticks*2*ONE)/10 units.                                               *)
(* The scale computation of calcSceneParams is modelled in IEEE-754        *)
(* single precision (24-bit significand, round to nearest even).           *)
(***************************************************************************)
EXTENDS Integers, Sequences, FiniteSets

VARIABLES
    \* ---- the host and the process
    clock,          \* CLOCK_MONOTONIC, in ticks of two seconds
    fault,          \* "none", or the outcome of undefined behaviour
    lastCall,       \* the entry point that ran last (history)
    lastInit,       \* what the last init() saw and did (history)
    \* ---- the heap
    g_renderer,     \* the global pointer: NULL or a Renderer object
    liveRenderers,  \* Renderer objects constructed and not deleted
    nextRenderer,   \* Renderer objects constructed so far
    heapArrays,     \* float arrays allocated with new[] and not released
    nextArray,      \* float arrays allocated so far
    nResize,        \* Renderer::resize calls so far (history)
    \* ---- the fields of *g_renderer
    kind,           \* "ES3" or "ES2": the subclass of the object
    mNumInstances,
    mLastFrameNs,
    mScale,         \* <<mScale[0], mScale[1]>>, single-precision values
    ptrs,           \* <<localOffset, mVx, mVy>>: the three array pointers
    localOffset,    \* contents of the array localOffset points to
    mVx,
    mVy,
    offsetBuf,      \* the mapped per-instance offset buffer
    viewport,       \* glViewport's <<w, h>>
    stepsSince,     \* step() calls since the last resize(), capped (history)
    stepsBefore,    \* step() calls before the last resize(), capped (history)
    \* ---- the GL objects of the compiler utility
    gl,             \* shader and program objects of the context
    glCall          \* the last createShader/createProgram call (history)

procVars == <<clock, fault, lastCall, lastInit>>
heapVars == <<g_renderer, liveRenderers, nextRenderer, heapArrays, nextArray,
              nResize>>
simVars == <<kind, mNumInstances, mLastFrameNs, mScale, ptrs, localOffset,
             mVx, mVy, offsetBuf, viewport, stepsSince, stepsBefore>>
glVars == <<gl, glCall>>
vars == <<procVars, heapVars, simVars, glVars>>

NULL == 0

\* ------------------------------------------------------------------ bounds

MaxClock == 3
MaxRenderers == 2
MaxResizes == 2
MaxDim == 5
MaxNames == 6
MaxLogLen == 2

\* ------------------------------------------------------- program constants

\* MAX_INSTANCES_ITEM of gles3jni.h
MAX_INSTANCES_ITEM == 2
\* the literal 1.0 of the bounce test, in fixed-point units
ONE == 5
\* the significand of 0.1f: 0.1f = 13421773 * 2^-27
RATIO_M == 13421773

Abs(x) == IF x < 0 THEN -x ELSE x

\* ------------------------------------------------- single-precision floats
\* A float is [m, e] with value m * 2^e; m = 0 for zero, otherwise
\* 2^23 <= m < 2^24.

FZero == [m |-> 0, e |-> 0]

RECURSIVE BitLen(_)
BitLen(n) == IF n = 0 THEN 0 ELSE 1 + BitLen(n \div 2)

\* The float nearest to (n + f) * 2^e, where 0 <= f < 1 and f > 0 iff sticky;
\* ties go to the even significand.
FRound(n, sticky, e) ==
    IF n = 0 THEN FZero
    ELSE LET len == BitLen(n) IN
         IF len <= 24
         THEN [m |-> n * 2^(24 - len), e |-> e - (24 - len)]
         ELSE LET sh == len - 24
                  mant == n \div 2^sh
                  rem == n % 2^sh
                  half == 2^(sh - 1)
                  up == \/ rem > half
                        \/ rem = half /\ (sticky \/ mant % 2 = 1)
                  m1 == IF up THEN mant + 1 ELSE mant
              IN IF m1 = 2^24 THEN [m |-> 2^23, e |-> e + sh + 1]
                              ELSE [m |-> m1, e |-> e + sh]

\* x * (float) n
FMulInt(x, n) == FRound(x.m * n, FALSE, x.e)

\* x / (float) n, n > 0
FDivInt(x, n) ==
    IF x.m = 0 THEN FZero
    ELSE LET num == x.m * 2^7
         IN FRound(num \div n, num % n # 0, x.e - 7)

\* float ratio = 0.1f
Ratio == [m |-> RATIO_M, e |-> -27]

\* mScale[1] = ratio * h / w: the product first, then the quotient
ScaleYIntegerQuotient(w, h) == FMulInt(Ratio, h \div w)
ScaleY(w, h) == FDivInt(FMulInt(Ratio, h), w)

\* ---------------------------------------------------------- version strings
\* A C string is the sequence of its characters.

Prefix == <<"O", "p", "e", "n", "G", "L", " ", "E", "S", " ">>
NeedleES3 == Prefix \o <<"3", ".">>
NeedleES2 == Prefix \o <<"2", ".">>

VerES32 == Prefix \o <<"3", ".", "2", " ", "v", "1">>
VerES20 == Prefix \o <<"2", ".", "0">>
VerES11 == <<"O", "p", "e", "n", "G", "L", " ", "E", "S", "-", "C", "M", " ", "1", ".", "1">>
VerES3NoDot == Prefix \o <<"3">>
VerBoth == Prefix \o <<"3", ".", "0", " ", "(">> \o Prefix \o <<"2", ".", "0", ")">>
VerDesktop == <<"4", ".", "6", ".", "0">>

AllVersions == {VerES32, VerES20, VerES11, VerES3NoDot, VerBoth, VerDesktop}

\* strstr(hay, needle) != NULL
StrStr(hay, needle) ==
    \E i \in 1..(Len(hay) - Len(needle) + 1) :
        SubSeq(hay, i, i + Len(needle) - 1) = needle

\* gl3stubInit() of the build without DYNAMIC_ES3
gl3stubInit == TRUE

\* The branch init() takes for a version string.
SelectPath(versionStr) ==
    IF StrStr(versionStr, NeedleES3) /\ gl3stubInit THEN "ES3"
    ELSE IF StrStr(versionStr, NeedleES2) THEN "ES2"
    ELSE "none"

\* ------------------------------------------------------- the Renderer object

\* The value of a pointer member the constructor does not initialise.
Indeterminate == <<-1, -1, -1>>

Idx == 1..(2 * MAX_INSTANCES_ITEM)
NoArray == [j \in Idx |-> 0]

\* Renderer::Renderer(): mNumInstances(0), mLastFrameNs(0), mScale zeroed;
\* localOffset, mVx and mVy are left as they are.
Constructed(k) ==
    /\ kind' = k
    /\ mNumInstances' = 0
    /\ mLastFrameNs' = 0
    /\ mScale' = <<FZero, FZero>>
    /\ ptrs' = Indeterminate
    /\ localOffset' = NoArray
    /\ mVx' = NoArray
    /\ mVy' = NoArray
    /\ offsetBuf' = NoArray
    /\ viewport' = <<0, 0>>
    /\ stepsSince' = 0
    /\ stepsBefore' = 0

\* No object: the fields of the model hold nothing.
NoObject ==
    /\ kind' = "none"
    /\ mNumInstances' = 0
    /\ mLastFrameNs' = 0
    /\ mScale' = <<FZero, FZero>>
    /\ ptrs' = Indeterminate
    /\ localOffset' = NoArray
    /\ mVx' = NoArray
    /\ mVy' = NoArray
    /\ offsetBuf' = NoArray
    /\ viewport' = <<0, 0>>
    /\ stepsSince' = 0
    /\ stepsBefore' = 0

\* Renderer::~Renderer() has an empty body: the arrays allocated so far stay
\* allocated.
DtorFreesArrays(arrays, p) == arrays \ {p[1], p[2], p[3]}
RendererDtor(arrays, p) == arrays

\* delete g_renderer: the object leaves the heap.
KeepOld(live, p) == live
DeleteRenderer(live, p) == live \ {p}

\* if (g_renderer) of the three entry points
AlwaysEnter(p) == TRUE
HasRenderer(p) == p # NULL

Running == fault = "none"

\* Java_com_android_gles3jni_GLES3JNILib_init; made: whether the renderer
\* factory returns an object.
JNI_init(versionStr, made) ==
    /\ Running
    /\ nextRenderer < MaxRenderers
    /\ LET path == SelectPath(versionStr)
           live1 == IF g_renderer # NULL
                    THEN DeleteRenderer(liveRenderers, g_renderer)
                    ELSE liveRenderers
           arrays1 == IF g_renderer # NULL
                      THEN RendererDtor(heapArrays, ptrs)
                      ELSE heapArrays
           obj == nextRenderer + 1
       IN /\ heapArrays' = arrays1
          /\ IF path # "none" /\ made
             THEN /\ g_renderer' = obj
                  /\ liveRenderers' = live1 \cup {obj}
                  /\ nextRenderer' = obj
                  /\ Constructed(path)
             ELSE /\ g_renderer' = NULL
                  /\ liveRenderers' = live1
                  /\ nextRenderer' = nextRenderer
                  /\ NoObject
          /\ lastInit' = [version |-> versionStr, path |-> path,
                          logged |-> path = "none"]
    /\ lastCall' = "init"
    /\ UNCHANGED <<clock, fault, nextArray, nResize, glVars>>

\* mLastFrameNs = 0 of Renderer::resize
KeepFrameClock(last) == last
ResetFrameClock(last) == 0

\* Renderer::resize with calcSceneParams; seed holds the values drand48()
\* yields for localOffset, mVx and mVy.
RendererResize(w, h, seed) ==
    /\ mNumInstances' = MAX_INSTANCES_ITEM
    /\ ptrs' = <<nextArray + 1, nextArray + 2, nextArray + 3>>
    /\ heapArrays' = heapArrays \cup {nextArray + 1, nextArray + 2, nextArray + 3}
    /\ nextArray' = nextArray + 3
    /\ nResize' = nResize + 1
    /\ localOffset' = seed.o
    /\ mVx' = seed.vx
    /\ mVy' = seed.vy
    /\ offsetBuf' = seed.o
    /\ mScale' = <<Ratio, ScaleY(w, h)>>
    /\ mLastFrameNs' = ResetFrameClock(mLastFrameNs)
    /\ viewport' = <<w, h>>
    /\ stepsBefore' = stepsSince
    /\ stepsSince' = 0
    /\ UNCHANGED kind

\* Java_com_android_gles3jni_GLES3JNILib_resize
JNI_resize(w, h, seed) ==
    /\ Running
    /\ nextArray < 3 * MaxResizes
    /\ lastCall' = "resize"
    /\ IF HasRenderer(g_renderer)
       THEN IF g_renderer = NULL
            THEN /\ fault' \in {"crash", "wild"}
                 /\ UNCHANGED <<heapArrays, nextArray, nResize, simVars>>
            ELSE /\ RendererResize(w, h, seed)
                 /\ UNCHANGED fault
       ELSE UNCHANGED <<fault, heapArrays, nextArray, nResize, simVars>>
    /\ UNCHANGED <<clock, lastInit, g_renderer, liveRenderers, nextRenderer, glVars>>

\* v * dt * 0.1 in fixed-point units, dt in ticks of two seconds
Delta(v, dt) == (v * dt * 2 * ONE) \div 10

\* localOffset[i] > 1.0 || localOffset[i] < -1.0
BounceTestInclusive(off) == off >= ONE \/ off <= -ONE
BounceTest(off) == off > ONE \/ off < -ONE

\* One axis of one instance: <<offset, velocity>> after the update.
StepAxis(off, v, dt) ==
    LET moved == off + Delta(v, dt)
    IN IF BounceTest(moved)
       THEN <<moved - 2 * Delta(v, dt), -v>>
       ELSE <<moved, v>>

\* The loop of Renderer::step over i = 0, 2, ..., with C index i at j = i + 1:
\* the x axis of an instance is localOffset[i] with velocity mVx[i], its y axis
\* localOffset[i + 1] with velocity mVy[i].
IsX(j) == j % 2 = 1
SteppedOffsets(dt) ==
    [j \in Idx |-> IF IsX(j) THEN StepAxis(localOffset[j], mVx[j], dt)[1]
                             ELSE StepAxis(localOffset[j], mVy[j - 1], dt)[1]]
SteppedVx(dt) ==
    [j \in Idx |-> IF IsX(j) THEN StepAxis(localOffset[j], mVx[j], dt)[2]
                             ELSE mVx[j]]
SteppedVy(dt) ==
    [j \in Idx |-> IF IsX(j) THEN StepAxis(localOffset[j + 1], mVy[j], dt)[2]
                             ELSE mVy[j]]

\* if (mLastFrameNs > 0)
Moving(last) == last > 0

Cap(n) == IF n >= 2 THEN 2 ELSE n

\* Renderer::render, which is step() and a draw of mNumInstances instances.
RendererStep ==
    LET nowNs == clock IN
    IF Moving(mLastFrameNs)
    THEN IF ptrs = Indeterminate
         THEN \* the loop reads and writes through uninitialised pointers
              /\ fault' \in {"crash", "wild"}
              /\ mLastFrameNs' = IF fault' = "crash" THEN mLastFrameNs ELSE nowNs
              /\ stepsSince' = Cap(stepsSince + 1)
              /\ UNCHANGED <<localOffset, mVx, mVy, offsetBuf>>
         ELSE /\ localOffset' = SteppedOffsets(nowNs - mLastFrameNs)
              /\ mVx' = SteppedVx(nowNs - mLastFrameNs)
              /\ mVy' = SteppedVy(nowNs - mLastFrameNs)
              /\ offsetBuf' = localOffset'
              /\ mLastFrameNs' = nowNs
              /\ stepsSince' = Cap(stepsSince + 1)
              /\ UNCHANGED fault
    ELSE /\ mLastFrameNs' = nowNs
         /\ stepsSince' = Cap(stepsSince + 1)
         /\ UNCHANGED <<fault, localOffset, mVx, mVy, offsetBuf>>

\* Java_com_android_gles3jni_GLES3JNILib_step
JNI_step ==
    /\ Running
    /\ lastCall' = "step"
    /\ IF HasRenderer(g_renderer)
       THEN IF g_renderer = NULL
            THEN /\ fault' \in {"crash", "wild"}
                 /\ UNCHANGED <<mLastFrameNs, stepsSince, localOffset, mVx, mVy, offsetBuf>>
            ELSE RendererStep
       ELSE UNCHANGED <<fault, mLastFrameNs, stepsSince, localOffset, mVx, mVy, offsetBuf>>
    /\ UNCHANGED <<clock, lastInit, heapVars, kind, mNumInstances, mScale, ptrs,
                   viewport, stepsBefore, glVars>>

\* Time passes between two calls of the host.
Tick ==
    /\ Running
    /\ clock < MaxClock
    /\ clock' = clock + 1
    /\ lastCall' = "tick"
    /\ UNCHANGED <<fault, lastInit, heapVars, simVars, glVars>>

\* ------------------------------------------------------ the GL object model
\* g is the context's object state: the shader and program names in use, the
\* <<program, shader>> attachments, the shaders flagged for deletion and the
\* number of names handed out.

GlEmpty == [shaders |-> {}, programs |-> {}, attached |-> {}, flagged |-> {},
            next |-> 0]

\* glCreateShader / glCreateProgram: a fresh name, or 0 when the driver fails
GlCreateShader(g, ok) ==
    IF ok THEN [g |-> [g EXCEPT !.shaders = @ \cup {g.next + 1}, !.next = @ + 1],
                name |-> g.next + 1]
          ELSE [g |-> g, name |-> 0]
GlCreateProgram(g, ok) ==
    IF ok THEN [g |-> [g EXCEPT !.programs = @ \cup {g.next + 1}, !.next = @ + 1],
                name |-> g.next + 1]
          ELSE [g |-> g, name |-> 0]

GlAttachShader(g, p, s) == [g EXCEPT !.attached = @ \cup {<<p, s>>}]

\* glDeleteShader: 0 is ignored; an attached shader is only flagged
GlDeleteShader(g, s) ==
    IF s \notin g.shaders THEN g
    ELSE IF \E a \in g.attached : a[2] = s
         THEN [g EXCEPT !.flagged = @ \cup {s}]
         ELSE [g EXCEPT !.shaders = @ \ {s}, !.flagged = @ \ {s}]

\* glDeleteProgram: the program goes, its shaders are detached, and a detached
\* shader that was flagged goes with it
GlDeleteProgram(g, p) ==
    IF p \notin g.programs THEN g
    ELSE LET att == {a \in g.attached : a[1] # p}
             gone == {s \in g.flagged : \A a \in att : a[2] # s}
         IN [g EXCEPT !.programs = @ \ {p}, !.attached = att,
                      !.shaders = @ \ gone, !.flagged = @ \ gone]

\* The driver's answers to one createShader call.
\* created: glCreateShader returns a name; glError: glGetError reports an error
\* after a failed creation; compiles: the source is one the compiler accepts
\* (GL_COMPILE_STATUS once compiled); infoLogLen: GL_INFO_LOG_LENGTH; mallocOk:
\* malloc(infoLogLen) returns a buffer. An answer the call never asks for is
\* left at FALSE or 0.
Answer(c, e, ok, len, m) ==
    [created |-> c, glError |-> e, compiles |-> ok, infoLogLen |-> len, mallocOk |-> m]
ShaderResp ==
    {Answer(FALSE, e, ok, 0, FALSE) : e \in BOOLEAN, ok \in BOOLEAN}
    \cup {Answer(TRUE, FALSE, TRUE, 0, FALSE)}
    \cup {Answer(TRUE, FALSE, FALSE, 0, FALSE)}
    \cup {Answer(TRUE, FALSE, FALSE, len, m) : len \in 1..MaxLogLen, m \in BOOLEAN}

\* checkGlError: one message when glGetError() reports an error
CheckGlError(funcName, err) ==
    IF err THEN <<[kind |-> "glerror", about |-> funcName, text |-> 0]>> ELSE <<>>

\* if (infoLogLen > 0) { malloc; if (infoLog) { ... ALOGE ... } }
LogsAlways(len, mallocOk) == TRUE
LogsCompileError(len, mallocOk) == len > 0 /\ mallocOk

\* The shader that createShader leaves behind on a compile failure.
DropFailedShader(g, s) == GlDeleteShader(g, s)

\* createShader(shaderType, src): the state after, the value returned, the
\* messages logged, the names created and the arguments of glDeleteShader.
\* text is the number of characters glGetShaderInfoLog writes.
CreateShader(g, shaderType, r) ==
    LET c == GlCreateShader(g, r.created) IN
    IF c.name = 0
    THEN [g |-> g, ret |-> 0, log |-> CheckGlError("glCreateShader", r.glError),
          made |-> {}, deleted |-> <<>>]
    ELSE IF ~r.compiles
         THEN [g |-> DropFailedShader(c.g, c.name), ret |-> 0,
               log |-> IF LogsCompileError(r.infoLogLen, r.mallocOk)
                       THEN <<[kind |-> "compile", about |-> shaderType,
                               text |-> r.infoLogLen - 1]>>
                       ELSE <<>>,
               made |-> {c.name}, deleted |-> <<c.name>>]
         ELSE [g |-> c.g, ret |-> c.name, log |-> <<>>, made |-> {c.name},
               deleted |-> <<>>]

\* The driver's answers to one createProgram call.
\* created: glCreateProgram returns a name; linked: GL_LINK_STATUS; the rest as
\* for a shader.
LinkAnswer(c, e, ok, len, m) ==
    [created |-> c, glError |-> e, linked |-> ok, infoLogLen |-> len, mallocOk |-> m]
LinkResp ==
    {LinkAnswer(FALSE, e, FALSE, 0, FALSE) : e \in BOOLEAN}
    \cup {LinkAnswer(TRUE, FALSE, TRUE, 0, FALSE)}
    \cup {LinkAnswer(TRUE, FALSE, FALSE, 0, FALSE)}
    \cup {LinkAnswer(TRUE, FALSE, FALSE, len, m) : len \in 1..MaxLogLen, m \in BOOLEAN}
ShaderGood == {r \in ShaderResp : r.created /\ r.compiles}
ShaderBad == ShaderResp \ ShaderGood
\* createProgram stops asking at the first failure.
ProgramResp ==
    [vtx : ShaderBad, frag : {Answer(FALSE, FALSE, FALSE, 0, FALSE)},
     link : {LinkAnswer(FALSE, FALSE, FALSE, 0, FALSE)}]
    \cup [vtx : ShaderGood, frag : ShaderBad,
          link : {LinkAnswer(FALSE, FALSE, FALSE, 0, FALSE)}]
    \cup [vtx : ShaderGood, frag : ShaderGood, link : LinkResp]

\* exit: glDeleteShader(vtxShader); glDeleteShader(fragShader);
ExitDeletesVtxOnly(g, vtxShader, fragShader) == GlDeleteShader(g, vtxShader)
ExitCleanup(g, vtxShader, fragShader) ==
    GlDeleteShader(GlDeleteShader(g, vtxShader), fragShader)

\* createProgram(vtxSrc, fragSrc)
CreateProgram(g, r) ==
    LET v == CreateShader(g, "vertex", r.vtx) IN
    IF v.ret = 0
    THEN [g |-> ExitCleanup(v.g, 0, 0), ret |-> 0, log |-> v.log,
          made |-> v.made, deleted |-> v.deleted \o <<0, 0>>,
          vtxShader |-> 0, fragShader |-> 0]
    ELSE
    LET f == CreateShader(v.g, "fragment", r.frag) IN
    IF f.ret = 0
    THEN [g |-> ExitCleanup(f.g, v.ret, 0), ret |-> 0, log |-> v.log \o f.log,
          made |-> v.made \cup f.made,
          deleted |-> v.deleted \o f.deleted \o <<v.ret, 0>>,
          vtxShader |-> v.ret, fragShader |-> 0]
    ELSE
    LET p == GlCreateProgram(f.g, r.link.created) IN
    IF p.name = 0
    THEN [g |-> ExitCleanup(p.g, v.ret, f.ret), ret |-> 0,
          log |-> v.log \o f.log \o CheckGlError("glCreateProgram", r.link.glError),
          made |-> v.made \cup f.made,
          deleted |-> v.deleted \o f.deleted \o <<v.ret, f.ret>>,
          vtxShader |-> v.ret, fragShader |-> f.ret]
    ELSE
    LET att == GlAttachShader(GlAttachShader(p.g, p.name, v.ret), p.name, f.ret) IN
    IF ~r.link.linked
    THEN [g |-> ExitCleanup(GlDeleteProgram(att, p.name), v.ret, f.ret),
          ret |-> 0,
          log |-> v.log \o f.log
                  \o <<[kind |-> "link", about |-> "program", text |-> 0]>>
                  \o (IF r.link.infoLogLen # 0 /\ r.link.mallocOk
                      THEN <<[kind |-> "linklog", about |-> "program",
                              text |-> r.link.infoLogLen - 1]>>
                      ELSE <<>>),
          made |-> v.made \cup f.made \cup {p.name},
          deleted |-> v.deleted \o f.deleted \o <<v.ret, f.ret>>,
          vtxShader |-> v.ret, fragShader |-> f.ret]
    ELSE [g |-> ExitCleanup(att, v.ret, f.ret), ret |-> p.name,
          log |-> v.log \o f.log,
          made |-> v.made \cup f.made \cup {p.name},
          deleted |-> v.deleted \o f.deleted \o <<v.ret, f.ret>>,
          vtxShader |-> v.ret, fragShader |-> f.ret]

\* A call of createShader by the renderer's set-up code.
CallCreateShader(shaderType, r) ==
    /\ Running
    /\ gl.next + 1 <= MaxNames
    /\ LET res == CreateShader(gl, shaderType, r)
       IN /\ gl' = res.g
          /\ glCall' = [fn |-> "createShader", resp |-> r, ret |-> res.ret,
                        log |-> res.log, made |-> res.made,
                        deleted |-> res.deleted]
    /\ UNCHANGED <<procVars, heapVars, simVars>>

\* A call of createProgram by the renderer's set-up code.
CallCreateProgram(r) ==
    /\ Running
    /\ gl.next + 3 <= MaxNames
    /\ LET res == CreateProgram(gl, r)
       IN /\ gl' = res.g
          /\ glCall' = [fn |-> "createProgram", resp |-> r, ret |-> res.ret,
                        log |-> res.log, made |-> res.made,
                        deleted |-> res.deleted,
                        vtxShader |-> res.vtxShader,
                        fragShader |-> res.fragShader]
    /\ UNCHANGED <<procVars, heapVars, simVars>>

\* ---------------------------------------------------------- specifications

Init ==
    /\ clock = 0
    /\ fault = "none"
    /\ lastCall = "none"
    /\ lastInit = [version |-> <<>>, path |-> "none", logged |-> FALSE]
    /\ g_renderer = NULL
    /\ liveRenderers = {}
    /\ nextRenderer = 0
    /\ heapArrays = {}
    /\ nextArray = 0
    /\ nResize = 0
    /\ kind = "none"
    /\ mNumInstances = 0
    /\ mLastFrameNs = 0
    /\ mScale = <<FZero, FZero>>
    /\ ptrs = Indeterminate
    /\ localOffset = NoArray
    /\ mVx = NoArray
    /\ mVy = NoArray
    /\ offsetBuf = NoArray
    /\ viewport = <<0, 0>>
    /\ stepsSince = 0
    /\ stepsBefore = 0
    /\ gl = GlEmpty
    /\ glCall = [fn |-> "none"]

\* drand48() values: offsets (drand48() - 0.5) * 2 lie in [-ONE, ONE), and
\* velocities (drand48() - 0.5) * 10 in [-5, 5). A profile is the four values
\* one instance reads, <<x offset, x velocity, y offset, y velocity>>; the
\* entries of mVx and mVy at odd C indices are seeded too and never read.
SeedOf(prof) ==
    LET Unread == 4 IN
    [o  |-> [j \in Idx |-> IF IsX(j) THEN prof[(j + 1) \div 2][1]
                                     ELSE prof[j \div 2][3]],
     vx |-> [j \in Idx |-> IF IsX(j) THEN prof[(j + 1) \div 2][2] ELSE Unread],
     vy |-> [j \in Idx |-> IF IsX(j) THEN prof[(j + 1) \div 2][4] ELSE Unread]]
Seeds(profiles) == {SeedOf(prof) : prof \in [1..MAX_INSTANCES_ITEM -> profiles]}
OneSeed == Seeds({<<2, 3, 2, 3>>})
SimSeeds == Seeds({<<2, 3, -ONE, 3>>, <<2, -5, 2, 3>>, <<-ONE, -5, 2, -5>>,
                   <<4, 4, -1, 0>>})

\* The life cycle of the global renderer: every version string, a factory
\* that may fail, one surface size, one seed.
Next ==
    \/ \E v \in AllVersions, made \in BOOLEAN : JNI_init(v, made)
    \/ \E s \in OneSeed : JNI_resize(1, 1, s)
    \/ JNI_step
    \/ Tick
Spec == Init /\ [][Next]_vars

\* The simulation: one driver, one surface size, many seeds.
NextSim ==
    \/ JNI_init(VerES32, TRUE)
    \/ \E s \in SimSeeds : JNI_resize(1, 1, s)
    \/ JNI_step
    \/ Tick
SpecSim == Init /\ [][NextSim]_vars

\* The scene parameters: every surface size up to MaxDim.
NextScale ==
    \/ JNI_init(VerES20, TRUE)
    \/ \E w \in 1..MaxDim, h \in 0..MaxDim, s \in OneSeed : JNI_resize(w, h, s)
    \/ JNI_step
    \/ Tick
SpecScale == Init /\ [][NextScale]_vars

\* The compiler utility under every answer of the driver.
NextGL ==
    \/ \E t \in {"vertex", "fragment"}, r \in ShaderResp : CallCreateShader(t, r)
    \/ \E r \in ProgramResp : CallCreateProgram(r)
SpecGL == Init /\ [][NextGL]_vars

\* ------------------------------------------------------------------ claims

Resized == g_renderer # NULL /\ ptrs # Indeterminate

\* C1: after resize(), every stored offset stays within [-1 - eps, 1 + eps]
\* whatever the time between two steps.
C1_OffsetsStayInBounds ==
    Resized => \A j \in Idx : Abs(localOffset[j]) <= ONE + ONE \div 5

\* C2: the first step() after a resize() moves nothing: offsets, velocities and
\* the offset buffer keep their values, and the call records the clock.
C2_FirstStepOnlyRecords ==
    [][(lastCall' = "step" /\ Resized /\ stepsSince = 0)
        => /\ localOffset' = localOffset
           /\ mVx' = mVx
           /\ mVy' = mVy
           /\ offsetBuf' = offsetBuf
           /\ mLastFrameNs' = clock]_vars

\* The first step after a second resize that steps preceded, at a clock past 0
\* and with an instance that has a velocity.
C2_Witness ==
    /\ lastCall = "step"
    /\ Resized
    /\ stepsSince = 1
    /\ stepsBefore = 2
    /\ nResize = 2
    /\ clock >= 2
    /\ mLastFrameNs = clock
    /\ mVx[1] # 0

\* What the claim says of one axis: the offset moves by d and the velocity
\* stays when the moved offset lies in [-1, 1]; otherwise the velocity is
\* negated and the offset becomes old - d.
AxisAsClaimed(old, v, new, newv, dt) ==
    LET d == (v * dt * 2 * ONE) \div 10 IN
    IF -ONE <= old + d /\ old + d <= ONE
    THEN new = old + d /\ newv = v
    ELSE new = old - d /\ newv = -v

\* C8: in a moving step each axis of each instance is updated from its own
\* offset and velocity alone, and no velocity changes its magnitude.
C8_AxesIndependent ==
    [][(lastCall' = "step" /\ Resized /\ mLastFrameNs > 0)
        => /\ \A k \in 1..MAX_INSTANCES_ITEM :
                /\ AxisAsClaimed(localOffset[2 * k - 1], mVx[2 * k - 1],
                                 localOffset'[2 * k - 1], mVx'[2 * k - 1],
                                 clock - mLastFrameNs)
                /\ AxisAsClaimed(localOffset[2 * k], mVy[2 * k - 1],
                                 localOffset'[2 * k], mVy'[2 * k - 1],
                                 clock - mLastFrameNs)
           /\ \A j \in Idx : /\ Abs(mVx'[j]) = Abs(mVx[j])
                             /\ Abs(mVy'[j]) = Abs(mVy[j])]_vars

\* After a step of two ticks the first instance, seeded <<2, 3, -ONE, 3>>, has
\* bounced on x (velocity -3, offset -4) and not on y (velocity 3, offset 1).
C8_Witness ==
    /\ lastCall = "step"
    /\ Resized
    /\ stepsSince = 2
    /\ localOffset[1] = -4 /\ mVx[1] = -3
    /\ localOffset[2] = 1 /\ mVy[1] = 3

\* C5: while the global pointer is null, resize() and step() change nothing of
\* the process, the heap or the renderer, and cause no fault.
C5_NullRendererNoOp ==
    [][(g_renderer = NULL /\ lastCall' \in {"resize", "step"})
        => UNCHANGED <<clock, fault, lastInit, heapVars, simVars>>]_vars

\* step() called with a null pointer left by a re-init whose factory failed.
C5_Witness ==
    /\ g_renderer = NULL
    /\ lastCall = "step"
    /\ lastInit.path = "ES3"
    /\ nextRenderer = 1

\* Whether needle occurs in hay, as the claim words it ("contains").
Occurs(hay, needle) ==
    \E a \in 0..Len(hay) : \E b \in a..Len(hay) : SubSeq(hay, a + 1, b) = needle
PathAsClaimed(v) ==
    IF Occurs(v, <<"O", "p", "e", "n", "G", "L", " ", "E", "S", " ", "3", ".">>)
    THEN "ES3"
    ELSE IF Occurs(v, <<"O", "p", "e", "n", "G", "L", " ", "E", "S", " ", "2", ".">>)
         THEN "ES2"
         ELSE "none"

\* C6: at most one Renderer is live, it is the one the global pointer refers
\* to, and the last init() took the ES3 path when the version string contains
\* "OpenGL ES 3.", else the ES2 path when it contains "OpenGL ES 2.", else
\* none, with an error logged.
C6_AtMostOneRenderer ==
    /\ liveRenderers = (IF g_renderer = NULL THEN {} ELSE {g_renderer})
    /\ lastInit.version # <<>> =>
          /\ lastInit.path = PathAsClaimed(lastInit.version)
          /\ lastInit.logged <=> PathAsClaimed(lastInit.version) = "none"
          /\ g_renderer # NULL => kind = PathAsClaimed(lastInit.version)
          /\ PathAsClaimed(lastInit.version) = "none" => g_renderer = NULL

\* A second init() has replaced an ES3 renderer by an ES2 one.
C6_Witness ==
    /\ lastInit.version = VerES20
    /\ nextRenderer = 2
    /\ g_renderer = 2
    /\ kind = "ES2"
    /\ liveRenderers = {2}

\* C9: after n resize() calls 3n arrays are allocated, and the ones the current
\* renderer can reach are the three of its last resize().
C9_ArraysLeak ==
    /\ Cardinality(heapArrays) = 3 * nResize
    /\ (IF Resized THEN {ptrs[1], ptrs[2], ptrs[3]} ELSE {})
         = (IF g_renderer # NULL /\ mNumInstances > 0
            THEN (3 * nResize - 2)..(3 * nResize) ELSE {})

\* Two resizes on two renderers, the first of them deleted by a re-init.
C9_Witness ==
    /\ nResize = 2
    /\ g_renderer = 2
    /\ Cardinality(heapArrays) = 6
    /\ ptrs = <<4, 5, 6>>

\* C10: step() touches the instance arrays only after a resize() on the same
\* renderer has allocated them: no step reads through an uninitialised pointer.
C10_StepOnlyAfterResize == fault = "none"

IsPow2(w) == \E k \in 0..BitLen(w) : w = 2^k

\* (float) n for an unsigned int n
FromInt(n) == FRound(n, FALSE, 0)

\* x * y, the 48-bit product of the significands kept in two 24-bit words
FMul(x, y) ==
    IF x.m = 0 \/ y.m = 0 THEN FZero
    ELSE LET a1 == x.m \div 4096
             b1 == x.m % 4096
             a2 == y.m \div 4096
             b2 == y.m % 4096
             mid == a1 * b2 + a2 * b1
             lowFull == (mid % 4096) * 4096 + b1 * b2
             lo == lowFull % 2^24
             hi == a1 * a2 + mid \div 4096 + lowFull \div 2^24
             \* hi * 2^24 + lo is the product, hi in [2^22, 2^24)
             top == hi >= 2^23
             mant == IF top THEN hi ELSE hi * 2 + lo \div 2^23
             rem == IF top THEN lo ELSE lo % 2^23
             half == IF top THEN 2^23 ELSE 2^22
             ex == x.e + y.e + (IF top THEN 24 ELSE 23)
             up == rem > half \/ (rem = half /\ mant % 2 = 1)
             m1 == IF up THEN mant + 1 ELSE mant
         IN IF m1 = 2^24 THEN [m |-> 2^23, e |-> ex + 1]
                         ELSE [m |-> m1, e |-> ex]

\* 0.1f * (h / w): the quotient first, then the product
ScaleYAsClaimed(w, h) == FMul(Ratio, FDivInt(FromInt(h), w))

\* C7 as stated: after resize(w, h), mScale[1] is 0.1f * (h / w) for every size.
C7_ScaleYExact ==
    (g_renderer # NULL /\ mNumInstances > 0)
        => /\ mScale[1] = Ratio
           /\ mScale[2] = ScaleYAsClaimed(viewport[1], viewport[2])

\* C7 amended: mScale[0] is 0.1f, and mScale[1] is 0.1f * (h / w) when w is a
\* power of two.
C7_ScaleYPow2 ==
    (g_renderer # NULL /\ mNumInstances > 0)
        => /\ mScale[1] = Ratio
           /\ IsPow2(viewport[1])
                => mScale[2] = ScaleYAsClaimed(viewport[1], viewport[2])

\* resize(4, 3): a power of two that divides nothing evenly.
C7_Witness ==
    /\ g_renderer # NULL
    /\ mNumInstances > 0
    /\ viewport = <<4, 3>>
    /\ mScale[2] = [m |-> 10066330, e |-> -27]

CompileLogs(log) == {i \in 1..Len(log) : log[i].kind = "compile"}

\* C3 as stated: createShader, given a shader object, returns 0 and logs a
\* non-empty compiler log whenever the source does not compile, and returns a
\* handle whenever it does.
C3_LogOnEveryFailure ==
    (glCall.fn = "createShader" /\ glCall.resp.created) =>
        IF glCall.resp.compiles
        THEN glCall.ret # 0
        ELSE /\ glCall.ret = 0
             /\ \E i \in CompileLogs(glCall.log) : glCall.log[i].text > 0

\* C3 amended: createShader returns 0 exactly when glCreateShader fails or the
\* source does not compile, and then leaves no shader behind; otherwise it
\* returns the live shader it created. The compiler's log is emitted exactly
\* when the compile failed, the driver reports a log length above 0 and the
\* buffer was allocated, and it holds the infoLogLen - 1 characters the driver
\* wrote.
C3_CreateShaderResult ==
    glCall.fn = "createShader" =>
        LET r == glCall.resp IN
        /\ glCall.ret = 0 <=> ~(r.created /\ r.compiles)
        /\ glCall.ret # 0 => glCall.ret \in gl.shaders /\ glCall.made = {glCall.ret}
        /\ glCall.ret = 0 => glCall.made \cap gl.shaders = {}
        /\ CompileLogs(glCall.log) # {}
             <=> (r.created /\ ~r.compiles /\ r.infoLogLen > 0 /\ r.mallocOk)
        /\ \A i \in CompileLogs(glCall.log) : glCall.log[i].text = r.infoLogLen - 1

\* A compile failure for which the driver reports no log: 0 is returned, the
\* shader is deleted and nothing is logged.
C3_Witness ==
    /\ glCall.fn = "createShader"
    /\ glCall.resp.created
    /\ ~glCall.resp.compiles
    /\ glCall.resp.infoLogLen = 0
    /\ glCall.ret = 0
    /\ glCall.log = <<>>
    /\ Cardinality(glCall.made) = 1

ShaderOk(r) == r.created /\ r.compiles
ProgramOk(r) == ShaderOk(r.vtx) /\ ShaderOk(r.frag) /\ r.link.created /\ r.link.linked

\* C4: createProgram returns 0 on every failure path and then none of the
\* objects it created is left; on success it returns the live program, and both
\* shaders were handed to glDeleteShader.
C4_NoLeakOnFailure ==
    glCall.fn = "createProgram" =>
        IF ProgramOk(glCall.resp)
        THEN /\ glCall.ret # 0
             /\ glCall.ret \in gl.programs
             /\ glCall.vtxShader # 0 /\ glCall.fragShader # 0
             /\ \E i, j \in 1..Len(glCall.deleted) :
                    /\ i # j
                    /\ glCall.deleted[i] = glCall.vtxShader
                    /\ glCall.deleted[j] = glCall.fragShader
        ELSE /\ glCall.ret = 0
             /\ glCall.made \cap (gl.shaders \cup gl.programs) = {}

\* A link failure: three objects were created and none is left.
C4_Witness ==
    /\ glCall.fn = "createProgram"
    /\ ShaderOk(glCall.resp.vtx) /\ ShaderOk(glCall.resp.frag)
    /\ glCall.resp.link.created /\ ~glCall.resp.link.linked
    /\ glCall.ret = 0
    /\ Cardinality(glCall.made) = 3
    /\ glCall.made \cap (gl.shaders \cup gl.programs) = {}

====
